---------------------------- MODULE Spec2Model ----------------------------
(***************************************************************************)
(* A model of khushiuttamani/pdf_to_audio.                                 *)
(*                                                                         *)
(*   src/models.py  the library: extract_text_from_pdf, clean_text,        *)
(*                  generate_summary, generate_explanation, text_to_speech *)
(*   src/app.py     the Streamlit script: its own helpers and the two      *)
(*                  button handlers, run once per user interaction.        *)
(*                                                                         *)
(* Text is a sequence of one-character strings.  Four specifications share *)
(* the variables; each one moves only its own group.                       *)
(*   SpecClean    clean_text applied once and twice to a bounded text      *)
(*   SpecExtract  one run of models.extract_text_from_pdf, step by step    *)
(*   SpecGen      models.generate_summary / generate_explanation calls     *)
(*   SpecApp      sessions of the app.py script, interleaved               *)
(***************************************************************************)
EXTENDS Integers, Sequences, FiniteSets, TLC

-----------------------------------------------------------------------------
(* Bounds of the model *)

MaxLen == 5

MaxPages == 3

MaxHistory == 2

NumSessions == 2

MaxRuns == 5

-----------------------------------------------------------------------------
(* Characters and text *)

\* "\r" stands for every whitespace character of \s other than space, tab, newline.
Whitespace == {" ", "\t", "\n", "\r"}

Chars == {"a"} \cup Whitespace

RECURSIVE TextsOfLen(_)
TextsOfLen(n) ==
    IF n = 0 THEN {<<>>}
    ELSE {Append(t, c) : t \in TextsOfLen(n - 1), c \in Chars}

Texts == UNION {TextsOfLen(n) : n \in 0..MaxLen}

IsSpace(c) == c \in Whitespace

\* The characters (or fragments) that occur in a text.
CharsOf(t) == {t[i] : i \in 1..Len(t)}

\* The last index j >= i - 1 such that every character of t[i..j] is in set S.
RECURSIVE RunEnd(_, _, _)
RunEnd(t, i, S) ==
    IF i <= Len(t) /\ t[i] \in S THEN RunEnd(t, i + 1, S) ELSE i - 1

\* The largest index in i..j that holds a newline (t[i] is one).
LastNewline(t, i, j) ==
    CHOOSE k \in i..j : t[k] = "\n" /\ \A m \in (k + 1)..j : t[m] # "\n"

\* The smallest index in (i+1)..j that holds a newline, or i when there is none.
NextNewline(t, i, j) ==
    IF \E k \in (i + 1)..j : t[k] = "\n"
    THEN CHOOSE k \in (i + 1)..j : t[k] = "\n" /\ \A m \in (i + 1)..(k - 1) : t[m] # "\n"
    ELSE i

\* re.sub(r'(\n\s*)+\n', '\n', text), lazily matched: each match ends at the
\* first following newline rather than the last one of the whitespace run.
RECURSIVE CollapseNewlinesLazy(_, _)
CollapseNewlinesLazy(t, i) ==
    IF i > Len(t) THEN <<>>
    ELSE IF t[i] = "\n" /\ NextNewline(t, i, RunEnd(t, i, Whitespace)) > i
         THEN <<"\n">> \o CollapseNewlinesLazy(t, NextNewline(t, i, RunEnd(t, i, Whitespace)) + 1)
         ELSE <<t[i]>> \o CollapseNewlinesLazy(t, i + 1)

\* re.sub(r'(\n\s*)+\n', '\n', text) from position i: the leftmost match starts at a
\* newline and, greedy, runs to the last newline of the whitespace run it starts;
\* matches do not overlap.
RECURSIVE CollapseNewlines(_, _)
CollapseNewlines(t, i) ==
    IF i > Len(t) THEN <<>>
    ELSE IF t[i] = "\n" /\ LastNewline(t, i, RunEnd(t, i, Whitespace)) > i
         THEN <<"\n">> \o CollapseNewlines(t, LastNewline(t, i, RunEnd(t, i, Whitespace)) + 1)
         ELSE <<t[i]>> \o CollapseNewlines(t, i + 1)

\* re.sub(r'[ \t]+', ' ', text) from position i.
RECURSIVE CollapseSpaces(_, _)
CollapseSpaces(t, i) ==
    IF i > Len(t) THEN <<>>
    ELSE IF t[i] \in {" ", "\t"}
         THEN <<" ">> \o CollapseSpaces(t, RunEnd(t, i, {" ", "\t"}) + 1)
         ELSE <<t[i]>> \o CollapseSpaces(t, i + 1)

\* str.strip(): leading and trailing whitespace removed.
RECURSIVE LStrip(_)
LStrip(t) == IF t # <<>> /\ IsSpace(Head(t)) THEN LStrip(Tail(t)) ELSE t

RECURSIVE RStrip(_)
RStrip(t) ==
    IF t # <<>> /\ IsSpace(t[Len(t)]) THEN RStrip(SubSeq(t, 1, Len(t) - 1)) ELSE t

strip(t) == RStrip(LStrip(t))

\* models.clean_text
clean_text(text) == strip(CollapseSpaces(CollapseNewlines(text, 1), 1))

-----------------------------------------------------------------------------
VARIABLES
    \* clean_text, applied twice
    clean_pc,           \* "off", "start", "once", "twice"
    clean_in,           \* the text given to clean_text
    clean_out1,         \* clean_text(clean_in)
    clean_out2,         \* clean_text(clean_out1)
    \* one run of models.extract_text_from_pdf
    ex_pc,              \* "off", "start", "scan", "recognize", "close", "done"
    pdf_pages,          \* the document: the embedded text of each page
    doc,                \* the fitz handle: "unopened", "open", "failed", "closed"
    page_num,           \* pages scanned so far (enumerate's index)
    extracted_text,     \* the accumulator
    image_pages,        \* 1-based numbers of the pages queued for OCR
    page_to_image_map,  \* page number -> image (an image is named by the page it shows)
    ocr_idx,            \* position of the recognition loop in image_pages
    ex_result,          \* the returned text
    raster_calls,       \* the calls of convert_from_path: [first, last, ok]
    recog_calls,        \* the calls of pytesseract.image_to_string: [page, ok]
    \* calls of models.generate_summary / generate_explanation
    model_configured,   \* models.model is not None
    gen_last,           \* the last call: its arguments, what the service did, what came back
    \* sessions of the app.py script
    uploaded_pdf,       \* per session: the file_uploader widget, "none" or an upload
    session_state,      \* per session: st.session_state, a map from the keys set so far
    pc,                 \* per session: "idle", or where its script run stands
    screen,             \* per session: what its latest script run displayed
    played,             \* per session: the audio bytes its latest st.audio call was given
    last_action,        \* per session: "none", "upload", "process", "improve"
    last_process,       \* per session: how its latest "Process PDF" run went
    feedback_log,       \* per session: the non-blank feedback submitted since the last process run
    directives,         \* per session: the explanation prompts sent for those feedbacks
    runs,               \* the script runs started so far, over all sessions
    tmp_pdfs,           \* the NamedTemporaryFile copies of uploads that exist on disk
    audio_file          \* the content of <tempdir>/explanation_audio.mp3

cleanVars == <<clean_pc, clean_in, clean_out1, clean_out2>>

extractVars == <<ex_pc, pdf_pages, doc, page_num, extracted_text, image_pages,
                 page_to_image_map, ocr_idx, ex_result, raster_calls, recog_calls>>

genVars == <<model_configured, gen_last>>

appVars == <<uploaded_pdf, session_state, pc, screen, played, last_action, last_process,
             feedback_log, directives, runs, tmp_pdfs, audio_file>>

vars == <<cleanVars, extractVars, genVars, appVars>>

-----------------------------------------------------------------------------
(* SpecClean: clean_text applied to a text, then to its own result *)

CleanIdle ==
    /\ clean_pc = "off"
    /\ clean_in = <<>>
    /\ clean_out1 = <<>>
    /\ clean_out2 = <<>>

CleanStart ==
    /\ clean_pc = "start"
    /\ clean_in \in Texts
    /\ clean_out1 = <<>>
    /\ clean_out2 = <<>>

CleanOnce ==
    /\ clean_pc = "start"
    /\ clean_out1' = clean_text(clean_in)
    /\ clean_pc' = "once"
    /\ UNCHANGED <<clean_in, clean_out2>>
    /\ UNCHANGED <<extractVars, genVars, appVars>>

CleanTwice ==
    /\ clean_pc = "once"
    /\ clean_out2' = clean_text(clean_out1)
    /\ clean_pc' = "twice"
    /\ UNCHANGED <<clean_in, clean_out1>>
    /\ UNCHANGED <<extractVars, genVars, appVars>>

-----------------------------------------------------------------------------
(* SpecExtract: models.extract_text_from_pdf on one document *)

\* The letter that marks page p's embedded text, and the one that marks what the
\* recognition service reads from page p's image.
TextLetters == <<"A", "B", "C", "D", "E">>
OcrLetters == <<"v", "w", "x", "y", "z">>

\* What page.get_text() can return for page p: nothing (an image-only page),
\* whitespace only, or text with surrounding whitespace.
PageTexts(p) == {<<>>, <<" ">>, <<" ", TextLetters[p], "\n">>}

Documents ==
    UNION {{d \in [1..n -> UNION {PageTexts(p) : p \in 1..n}] :
              \A p \in 1..n : d[p] \in PageTexts(p)} : n \in 1..MaxPages}

\* pytesseract.image_to_string on the image of page p, when it succeeds.
Recognized(p) == <<OcrLetters[p], "\n">>

SeqMin(s) == CHOOSE x \in {s[i] : i \in 1..Len(s)} : \A j \in 1..Len(s) : x <= s[j]
SeqMax(s) == CHOOSE x \in {s[i] : i \in 1..Len(s)} : \A j \in 1..Len(s) : x >= s[j]

ExtractIdle ==
    /\ ex_pc = "off"
    /\ pdf_pages = <<>>
    /\ doc = "unopened"
    /\ page_num = 0
    /\ extracted_text = <<>>
    /\ image_pages = <<>>
    /\ page_to_image_map = <<>>
    /\ ocr_idx = 0
    /\ ex_result = <<>>
    /\ raster_calls = <<>>
    /\ recog_calls = <<>>

ExtractStart ==
    /\ ex_pc = "start"
    /\ pdf_pages \in Documents
    /\ doc = "unopened"
    /\ page_num = 0
    /\ extracted_text = <<>>
    /\ image_pages = <<>>
    /\ page_to_image_map = <<>>
    /\ ocr_idx = 0
    /\ ex_result = <<>>
    /\ raster_calls = <<>>
    /\ recog_calls = <<>>

\* fitz.open(pdf_path) succeeds.
OpenDoc ==
    /\ ex_pc = "start"
    /\ doc' = "open"
    /\ ex_pc' = "scan"
    /\ UNCHANGED <<pdf_pages, page_num, extracted_text, image_pages,
                   page_to_image_map, ocr_idx, ex_result, raster_calls, recog_calls>>
    /\ UNCHANGED <<cleanVars, genVars, appVars>>

\* fitz.open(pdf_path) raises: the outer except returns "".
OpenFails ==
    /\ ex_pc = "start"
    /\ doc' = "failed"
    /\ ex_result' = <<>>
    /\ ex_pc' = "done"
    /\ UNCHANGED <<pdf_pages, page_num, extracted_text, image_pages,
                   page_to_image_map, ocr_idx, raster_calls, recog_calls>>
    /\ UNCHANGED <<cleanVars, genVars, appVars>>

\* extracted_text += text + "\n"
ScanAppend(acc, text) == acc \o text \o <<"\n">>

\* One iteration of "for page_num, page in enumerate(doc)".
ScanPage ==
    /\ ex_pc = "scan"
    /\ page_num < Len(pdf_pages)
    /\ LET text == strip(pdf_pages[page_num + 1]) IN
          IF text # <<>>
          THEN /\ extracted_text' = ScanAppend(extracted_text, text)
               /\ UNCHANGED image_pages
          ELSE /\ image_pages' = Append(image_pages, page_num + 1)
               /\ UNCHANGED extracted_text
    /\ page_num' = page_num + 1
    /\ UNCHANGED <<ex_pc, pdf_pages, doc, page_to_image_map, ocr_idx, ex_result,
                   raster_calls, recog_calls>>
    /\ UNCHANGED <<cleanVars, genVars, appVars>>

\* The range convert_from_path is asked for.
RasterRange(pages) == [first |-> SeqMin(pages), last |-> SeqMax(pages)]

\* "if image_pages:" holds; convert_from_path is called for the range min..max.
\* It returns one image per page of the range, or raises (the inner except logs).
Rasterize ==
    /\ ex_pc = "scan"
    /\ page_num = Len(pdf_pages)
    /\ image_pages # <<>>
    /\ \E ok \in BOOLEAN :
          /\ raster_calls' = Append(raster_calls,
                                    [first |-> RasterRange(image_pages).first,
                                     last |-> RasterRange(image_pages).last,
                                     ok |-> ok])
          /\ IF ok
             THEN /\ page_to_image_map' =
                        [p \in RasterRange(image_pages).first..RasterRange(image_pages).last |-> p]
                  /\ ocr_idx' = 1
                  /\ ex_pc' = "recognize"
             ELSE /\ UNCHANGED <<page_to_image_map, ocr_idx>>
                  /\ ex_pc' = "close"
    /\ UNCHANGED <<pdf_pages, doc, page_num, extracted_text, image_pages, ex_result,
                   recog_calls>>
    /\ UNCHANGED <<cleanVars, genVars, appVars>>

\* "if image_pages:" does not hold: no OCR at all.
SkipOcr ==
    /\ ex_pc = "scan"
    /\ page_num = Len(pdf_pages)
    /\ image_pages = <<>>
    /\ ex_pc' = "close"
    /\ UNCHANGED <<pdf_pages, doc, page_num, extracted_text, image_pages,
                   page_to_image_map, ocr_idx, ex_result, raster_calls, recog_calls>>
    /\ UNCHANGED <<cleanVars, genVars, appVars>>

\* One iteration of "for page_num in image_pages": the page's image is read, or
\* image_to_string raises and the except that wraps the whole loop ends the OCR.
RecognizePage ==
    /\ ex_pc = "recognize"
    /\ ocr_idx <= Len(image_pages)
    /\ LET p == image_pages[ocr_idx] IN
          IF p \in DOMAIN page_to_image_map
          THEN \E ok \in BOOLEAN :
                  /\ recog_calls' = Append(recog_calls,
                                           [page |-> page_to_image_map[p], ok |-> ok])
                  /\ IF ok
                     THEN /\ extracted_text' = extracted_text \o Recognized(page_to_image_map[p]) \o <<"\n">>
                          /\ ocr_idx' = ocr_idx + 1
                          /\ UNCHANGED ex_pc
                     ELSE /\ ex_pc' = "close"
                          /\ UNCHANGED <<extracted_text, ocr_idx>>
          ELSE /\ ocr_idx' = ocr_idx + 1
               /\ UNCHANGED <<recog_calls, extracted_text, ex_pc>>
    /\ UNCHANGED <<pdf_pages, doc, page_num, image_pages, page_to_image_map, ex_result,
                   raster_calls>>
    /\ UNCHANGED <<cleanVars, genVars, appVars>>

\* The recognition loop is exhausted.
RecognizeDone ==
    /\ ex_pc = "recognize"
    /\ ocr_idx > Len(image_pages)
    /\ ex_pc' = "close"
    /\ UNCHANGED <<pdf_pages, doc, page_num, extracted_text, image_pages,
                   page_to_image_map, ocr_idx, ex_result, raster_calls, recog_calls>>
    /\ UNCHANGED <<cleanVars, genVars, appVars>>

\* doc.close(); return clean_text(extracted_text)
CloseAndReturn ==
    /\ ex_pc = "close"
    /\ doc' = "closed"
    /\ ex_result' = clean_text(extracted_text)
    /\ ex_pc' = "done"
    /\ UNCHANGED <<pdf_pages, page_num, extracted_text, image_pages,
                   page_to_image_map, ocr_idx, raster_calls, recog_calls>>
    /\ UNCHANGED <<cleanVars, genVars, appVars>>

-----------------------------------------------------------------------------
(* SpecGen: models.generate_summary and models.generate_explanation *)

\* A prompt or a generated text is a sequence of fragments; a corpus, a language,
\* a feedback string and a keyword are each one fragment.
Corpora == {"corpus one", "corpus two"}
Languages == {"English", "Hindi"}
FeedbackStrings == {"too long", "add an analogy"}
Keywords == {"physics"}

RECURSIVE SeqsUpTo(_, _)
SeqsUpTo(S, n) ==
    IF n = 0 THEN {<<>>}
    ELSE SeqsUpTo(S, n - 1) \cup
         {Append(q, x) : q \in {r \in SeqsUpTo(S, n - 1) : Len(r) = n - 1}, x \in S}

Histories == SeqsUpTo(FeedbackStrings, MaxHistory)

\* What model.generate_content does with a prompt: it answers with a text, which
\* may itself contain the word "Error:", or it raises with a message.
ServiceOutcomes ==
    {[ok |-> TRUE, text |-> <<"generated text">>, msg |-> ""],
     [ok |-> TRUE, text |-> <<"Error:", "is a word of the document">>, msg |-> ""],
     [ok |-> FALSE, text |-> <<>>, msg |-> "quota exceeded"],
     [ok |-> FALSE, text |-> <<>>, msg |-> "deadline exceeded"]}

\* sep.join(parts)
RECURSIVE Join(_, _)
Join(parts, sep) ==
    IF parts = <<>> THEN <<>>
    ELSE IF Len(parts) = 1 THEN <<parts[1]>>
    ELSE <<parts[1], sep>> \o Join(Tail(parts), sep)

NotConfigured == <<"Error:", "Gemini model is not configured. Please check API key.">>

SummaryPrompt(text, language) ==
    <<"Summarize the following document in a few simple sentences in", language,
      "DOCUMENT:", text>>

\* The call of the service inside try/except, with the except clause left out:
\* the service's exception reaches the caller.
CallServiceUncaught(prompt, outcome, what) ==
    IF outcome.ok
    THEN [raised |-> FALSE, ret |-> outcome.text, sent |-> <<prompt>>]
    ELSE [raised |-> TRUE, ret |-> <<>>, sent |-> <<prompt>>]

\* try: return model.generate_content(prompt).text
\* except Exception as e: return f"Error: Could not generate {what}. ({e})"
CallService(prompt, outcome, what) ==
    IF outcome.ok
    THEN [raised |-> FALSE, ret |-> outcome.text, sent |-> <<prompt>>]
    ELSE [raised |-> FALSE,
          ret |-> <<"Error:", "Could not generate", what, outcome.msg>>,
          sent |-> <<prompt>>]

\* models.generate_summary(text, language), the service behaving as outcome says.
generate_summary(configured, text, language, outcome) ==
    IF ~configured
    THEN [raised |-> FALSE, ret |-> NotConfigured, sent |-> <<>>]
    ELSE CallService(SummaryPrompt(text, language), outcome, "summary")

\* The prompt models.generate_explanation builds.
ExplanationPrompt(text, language, feedback_history, user_keywords) ==
    <<"Explain the following document for a complete beginner in", language,
      "DOCUMENT:", text>>
    \o (IF feedback_history # <<>>
        THEN <<"IMPROVEMENT INSTRUCTIONS: Feedback:">> \o Join(feedback_history, "\n")
        ELSE <<>>)
    \o (IF user_keywords # <<>>
        THEN <<"USER PREFERENCES:">> \o Join(user_keywords, ", ")
        ELSE <<>>)

\* models.generate_explanation(text, language, feedback_history, user_keywords)
generate_explanation(configured, text, language, feedback_history, user_keywords, outcome) ==
    IF ~configured
    THEN [raised |-> FALSE, ret |-> NotConfigured, sent |-> <<>>]
    ELSE CallService(ExplanationPrompt(text, language, feedback_history, user_keywords),
                     outcome, "explanation")

NoCall ==
    [fn |-> "none", feedback_history |-> <<>>, outcome |-> [ok |-> TRUE, text |-> <<>>, msg |-> ""],
     raised |-> FALSE, ret |-> <<>>, sent |-> <<>>]

GenIdle ==
    /\ model_configured = FALSE
    /\ gen_last = NoCall

\* The module-level configuration either produced a model or set it to None.
GenStart ==
    /\ model_configured \in BOOLEAN
    /\ gen_last = NoCall

CallGenerateSummary ==
    /\ \E text \in Corpora, language \in Languages, outcome \in ServiceOutcomes :
          LET r == generate_summary(model_configured, text, language, outcome) IN
          gen_last' = [fn |-> "generate_summary", feedback_history |-> <<>>,
                       outcome |-> outcome,
                       raised |-> r.raised, ret |-> r.ret, sent |-> r.sent]
    /\ UNCHANGED model_configured
    /\ UNCHANGED <<cleanVars, extractVars, appVars>>

CallGenerateExplanation ==
    /\ \E text \in Corpora, language \in Languages, feedback_history \in Histories,
          user_keywords \in SeqsUpTo(Keywords, 1), outcome \in ServiceOutcomes :
          LET r == generate_explanation(model_configured, text, language,
                                        feedback_history, user_keywords, outcome) IN
          gen_last' = [fn |-> "generate_explanation", feedback_history |-> feedback_history,
                       outcome |-> outcome,
                       raised |-> r.raised, ret |-> r.ret, sent |-> r.sent]
    /\ UNCHANGED model_configured
    /\ UNCHANGED <<cleanVars, extractVars, appVars>>

-----------------------------------------------------------------------------
(* SpecApp: the app.py script.  Streamlit runs the whole script once per user
   interaction of a session, each session in its own thread; the runs of two
   sessions interleave at their accesses to the shared audio file. *)

Sessions == 1..NumSessions

\* The PDFs a user can upload: the embedded text of each page, and what the
\* recognition service reads from each page's image. No upload has more than
\* one page without embedded text.
Uploads ==
    [one   |-> [pages |-> <<<<" ", "A", "\n">>>>,
                recog |-> <<<<"v", "\n">>>>],
     two   |-> [pages |-> <<<<>>, <<"B", "#", "\n">>>>,
                recog |-> <<<<"w", "\n">>, <<"x", "\n">>>>],
     blank |-> [pages |-> <<<<>>>>,
                recog |-> <<<<" ", "\n">>>>]]

UploadNames == DOMAIN Uploads

\* app.extract_text_from_pdf: page by page, OCR of a page without text inside
\* its own try/except.
RECURSIVE app_extract_text_from_pdf(_, _, _)
app_extract_text_from_pdf(u, n, ocr_ok) ==
    IF n = 0 THEN <<>>
    ELSE app_extract_text_from_pdf(u, n - 1, ocr_ok) \o
         (IF u.pages[n] # <<>> /\ strip(u.pages[n]) # <<>>
          THEN u.pages[n] \o <<"\n">>
          ELSE IF ocr_ok THEN u.recog[n] \o <<"\n">> ELSE <<>>)

\* The characters app.clean_text keeps: [A-Za-z0-9\s.,!?':;"()\-]
AllowedChars ==
    {"A", "B", "C", "D", "E", "a", "v", "w", "x", "y", "z"} \cup Whitespace
    \cup {".", ",", "!", "?", "'", ":", ";", "(", ")", "-"}

\* app.clean_text
app_clean_text(text) == SelectSeq(text, LAMBDA c : c \in AllowedChars)

\* app.remove_markdown_formatting: every "*", "_", "~" and backquote is removed.
MarkdownChars == {"*", "_", "~", "backquote"}

remove_markdown_formatting(text) == SelectSeq(text, LAMBDA c : c \notin MarkdownChars)

\* len(text.split())
RECURSIVE WordCount(_)
WordCount(t) ==
    IF t = <<>> THEN 0
    ELSE IF IsSpace(Head(t)) THEN WordCount(Tail(t))
    ELSE IF Len(t) = 1 \/ IsSpace(t[2]) THEN 1 + WordCount(Tail(t))
    ELSE WordCount(Tail(t))

ShortBelow == 500
LongAbove == 5000

\* The prompt of app.generate_summary
app_summary_prompt(text) ==
    <<"Please read the following document and write a short and simple summary.",
      "Document:">> \o text

\* The prompt of app.generate_explanation(text, feedback): one feedback string.
app_explanation_prompt(text, feedback) ==
    <<"You are a kind and smart teacher.", "Document:">> \o text
    \o (IF feedback # ""
        THEN <<"The user found the previous explanation unclear. Here's what they said:",
               feedback>>
        ELSE <<>>)
    \o (IF WordCount(text) < ShortBelow
        THEN <<"Keep it short and to the point (less than 300 words).">>
        ELSE IF WordCount(text) > LongAbove
        THEN <<"Provide a long, comprehensive explanation (at least 1000 words).">>
        ELSE <<"Keep it around 500-700 words.">>)

\* The text the generation service answers a prompt with, when it answers.
Generated(prompt) == <<"*", "*", "answer to">> \o prompt \o <<"*", "*">>

\* The audio gTTS renders a text into.
Synthesized(text) == <<"audio of">> \o text

\* What a user can type into the feedback box.
FeedbackInputs == {"", "  "} \cup FeedbackStrings

\* user_feedback.strip() == ""
IsBlank(f) == f \in {"", "  "}

AudioPath == "explanation_audio.mp3"

\* A session's explanation carries the "Error:" label.
ErrorMarked(text) == "Error:" \in CharsOf(text)

NoProcess == [upload |-> "none", outcome |-> "none", tts_called |-> FALSE, tts_ok |-> FALSE]

AppIdle ==
    /\ uploaded_pdf = <<>>
    /\ session_state = <<>>
    /\ pc = <<>>
    /\ screen = <<>>
    /\ played = <<>>
    /\ last_action = <<>>
    /\ last_process = <<>>
    /\ feedback_log = <<>>
    /\ directives = <<>>
    /\ runs = 0
    /\ tmp_pdfs = {}
    /\ audio_file = <<>>

AppStart ==
    /\ uploaded_pdf = [s \in Sessions |-> "none"]
    /\ session_state = [s \in Sessions |-> <<>>]
    /\ pc = [s \in Sessions |-> "idle"]
    /\ screen = [s \in Sessions |-> {}]
    /\ played = [s \in Sessions |-> <<>>]
    /\ last_action = [s \in Sessions |-> "none"]
    /\ last_process = [s \in Sessions |-> NoProcess]
    /\ feedback_log = [s \in Sessions |-> <<>>]
    /\ directives = [s \in Sessions |-> <<>>]
    /\ runs = 0
    /\ tmp_pdfs = {}
    /\ audio_file = <<>>

\* st.session_state.key = value
SetKey(state, key, value) ==
    [k \in DOMAIN state \cup {key} |-> IF k = key THEN value ELSE state[k]]

\* Lines 110-113, at the top of every script run: with a file in the uploader,
\* a new temporary copy of it is written (delete=False) and nothing removes it.
SaveUpload(s, u, files) ==
    IF u = "none" THEN files
    ELSE files \cup {[id |-> Cardinality(files) + 1, session |-> s, ingested |-> FALSE]}

\* The copy the current run of session s wrote.
MarkIngested(files) ==
    {IF f.id = Cardinality(files) THEN [f EXCEPT !.ingested = TRUE] ELSE f : f \in files}

\* "if 'cleaned_text' in st.session_state": the feedback section is drawn.
FeedbackSection(state) ==
    IF "cleaned_text" \in DOMAIN state THEN {"feedback form"} ELSE {}

\* The user puts a file into the uploader, replaces it or removes it: a script
\* run with no button pressed.
ChangeUpload(s, u) ==
    /\ pc[s] = "idle"
    /\ u # uploaded_pdf[s]
    /\ runs < MaxRuns
    /\ runs' = runs + 1
    /\ uploaded_pdf' = [uploaded_pdf EXCEPT ![s] = u]
    /\ tmp_pdfs' = SaveUpload(s, u, tmp_pdfs)
    /\ screen' = [screen EXCEPT ![s] = FeedbackSection(session_state[s])]
    /\ last_action' = [last_action EXCEPT ![s] = "upload"]
    /\ UNCHANGED <<session_state, pc, played, last_process, feedback_log, directives,
                   audio_file>>
    /\ UNCHANGED <<cleanVars, extractVars, genVars>>

\* "Process PDF" pressed: lines 110-148, through tts.save. The services behave
\* as ocr_ok, sum_ok, exp_ok and tts_ok say; a raise inside the try block is
\* caught at line 154 and shown as "Something went wrong".
ProcessPDF(s, ocr_ok, sum_ok, exp_ok, tts_ok) ==
    /\ pc[s] = "idle"
    /\ uploaded_pdf[s] # "none"
    /\ runs < MaxRuns
    /\ runs' = runs + 1
    /\ LET u == uploaded_pdf[s]
           extracted == app_extract_text_from_pdf(Uploads[u], Len(Uploads[u].pages), ocr_ok)
           cleaned == app_clean_text(extracted)
           summary == Generated(app_summary_prompt(cleaned))
           explanation == Generated(app_explanation_prompt(cleaned, ""))
           speech_text == remove_markdown_formatting(explanation)
           st1 == SetKey(session_state[s], "cleaned_text", cleaned)
           st2 == SetKey(st1, "summary", summary)
           st3 == SetKey(st2, "explanation", explanation)
       IN
       /\ tmp_pdfs' = MarkIngested(SaveUpload(s, u, tmp_pdfs))
       /\ last_action' = [last_action EXCEPT ![s] = "process"]
       /\ IF strip(extracted) = <<>>
          THEN /\ screen' = [screen EXCEPT ![s] =
                                {"error: no text"} \cup FeedbackSection(session_state[s])]
               /\ last_process' = [last_process EXCEPT ![s] =
                                      [upload |-> u, outcome |-> "no text",
                                       tts_called |-> FALSE, tts_ok |-> FALSE]]
               /\ UNCHANGED <<session_state, pc, audio_file>>
          ELSE IF ~sum_ok
          THEN /\ session_state' = [session_state EXCEPT ![s] = st1]
               /\ screen' = [screen EXCEPT ![s] =
                                {"error: something went wrong", "feedback form"}]
               /\ last_process' = [last_process EXCEPT ![s] =
                                      [upload |-> u, outcome |-> "summary failed",
                                       tts_called |-> FALSE, tts_ok |-> FALSE]]
               /\ UNCHANGED <<pc, audio_file>>
          ELSE IF ~exp_ok
          THEN /\ session_state' = [session_state EXCEPT ![s] = st2]
               /\ screen' = [screen EXCEPT ![s] =
                                {"summary", "error: something went wrong", "feedback form"}]
               /\ last_process' = [last_process EXCEPT ![s] =
                                      [upload |-> u, outcome |-> "explanation failed",
                                       tts_called |-> FALSE, tts_ok |-> FALSE]]
               /\ UNCHANGED <<pc, audio_file>>
          ELSE IF ~tts_ok
          THEN /\ session_state' = [session_state EXCEPT ![s] = st3]
               /\ screen' = [screen EXCEPT ![s] =
                                {"summary", "explanation", "error: something went wrong",
                                 "feedback form"}]
               /\ last_process' = [last_process EXCEPT ![s] =
                                      [upload |-> u, outcome |-> "generated",
                                       tts_called |-> TRUE, tts_ok |-> FALSE]]
               /\ UNCHANGED <<pc, audio_file>>
          ELSE /\ session_state' = [session_state EXCEPT ![s] = st3]
               /\ audio_file' = Synthesized(speech_text)
               /\ screen' = [screen EXCEPT ![s] = {"summary", "explanation", "audio generated"}]
               /\ last_process' = [last_process EXCEPT ![s] =
                                      [upload |-> u, outcome |-> "generated",
                                       tts_called |-> TRUE, tts_ok |-> TRUE]]
               /\ pc' = [pc EXCEPT ![s] = "process_read"]
       /\ feedback_log' = [feedback_log EXCEPT ![s] = <<>>]
       /\ directives' = [directives EXCEPT ![s] = <<>>]
    /\ UNCHANGED <<uploaded_pdf, played>>
    /\ UNCHANGED <<cleanVars, extractVars, genVars>>

\* Lines 149-152 and the feedback section: the audio file is opened, read and
\* played, then its path is stored.
ReadAudioProcess(s) ==
    /\ pc[s] = "process_read"
    /\ played' = [played EXCEPT ![s] = audio_file]
    /\ screen' = [screen EXCEPT ![s] = @ \cup {"audio", "feedback form"}]
    /\ session_state' = [session_state EXCEPT ![s] = SetKey(@, "audio_path", AudioPath)]
    /\ pc' = [pc EXCEPT ![s] = "idle"]
    /\ UNCHANGED <<uploaded_pdf, last_action, last_process, feedback_log, directives,
                   runs, tmp_pdfs, audio_file>>
    /\ UNCHANGED <<cleanVars, extractVars, genVars>>

\* "Improve Explanation" pressed with user_feedback in the box: lines 110-113 and
\* 159-178, through tts.save. Nothing catches a raise here: the run ends and
\* Streamlit shows the exception.
ImproveExplanation(s, user_feedback, exp_ok, tts_ok) ==
    /\ pc[s] = "idle"
    /\ "cleaned_text" \in DOMAIN session_state[s]
    /\ runs < MaxRuns
    /\ runs' = runs + 1
    /\ IsBlank(user_feedback) \/ Len(feedback_log[s]) < MaxHistory
    /\ tmp_pdfs' = SaveUpload(s, uploaded_pdf[s], tmp_pdfs)
    /\ last_action' = [last_action EXCEPT ![s] = "improve"]
    /\ LET prompt == app_explanation_prompt(session_state[s]["cleaned_text"], user_feedback)
           improved == Generated(prompt)
           improved_speech == remove_markdown_formatting(improved)
       IN
       IF IsBlank(user_feedback)
       THEN /\ screen' = [screen EXCEPT ![s] = {"feedback form", "info: no feedback"}]
            /\ UNCHANGED <<session_state, pc, feedback_log, directives, audio_file>>
       ELSE /\ feedback_log' = [feedback_log EXCEPT ![s] = Append(@, user_feedback)]
            /\ directives' = [directives EXCEPT ![s] = Append(@, prompt)]
            /\ IF ~exp_ok
               THEN /\ screen' = [screen EXCEPT ![s] = {"feedback form", "exception"}]
                    /\ UNCHANGED <<session_state, pc, audio_file>>
               ELSE IF ~tts_ok
               THEN /\ session_state' = [session_state EXCEPT ![s] =
                                            SetKey(@, "explanation", improved)]
                    /\ screen' = [screen EXCEPT ![s] =
                                     {"feedback form", "explanation", "exception"}]
                    /\ UNCHANGED <<pc, audio_file>>
               ELSE /\ session_state' = [session_state EXCEPT ![s] =
                                            SetKey(SetKey(@, "explanation", improved),
                                                   "audio_path", AudioPath)]
                    /\ audio_file' = Synthesized(improved_speech)
                    /\ screen' = [screen EXCEPT ![s] = {"feedback form", "explanation"}]
                    /\ pc' = [pc EXCEPT ![s] = "improve_read"]
    /\ UNCHANGED <<uploaded_pdf, played, last_process>>
    /\ UNCHANGED <<cleanVars, extractVars, genVars>>

\* Lines 179-180: the audio file is opened, read and played.
ReadAudioImprove(s) ==
    /\ pc[s] = "improve_read"
    /\ played' = [played EXCEPT ![s] = audio_file]
    /\ screen' = [screen EXCEPT ![s] = @ \cup {"audio"}]
    /\ pc' = [pc EXCEPT ![s] = "idle"]
    /\ UNCHANGED <<uploaded_pdf, session_state, last_action, last_process, feedback_log,
                   directives, runs, tmp_pdfs, audio_file>>
    /\ UNCHANGED <<cleanVars, extractVars, genVars>>

-----------------------------------------------------------------------------
(* The specifications *)

InitClean == CleanStart /\ ExtractIdle /\ GenIdle /\ AppIdle

NextClean == CleanOnce \/ CleanTwice

SpecClean == InitClean /\ [][NextClean]_vars

InitExtract == ExtractStart /\ CleanIdle /\ GenIdle /\ AppIdle

NextExtract ==
    \/ OpenDoc
    \/ OpenFails
    \/ ScanPage
    \/ Rasterize
    \/ SkipOcr
    \/ RecognizePage
    \/ RecognizeDone
    \/ CloseAndReturn

SpecExtract == InitExtract /\ [][NextExtract]_vars

InitGen == GenStart /\ CleanIdle /\ ExtractIdle /\ AppIdle

NextGen == CallGenerateSummary \/ CallGenerateExplanation

SpecGen == InitGen /\ [][NextGen]_vars

InitApp == AppStart /\ CleanIdle /\ ExtractIdle /\ GenIdle

NextApp ==
    \/ \E s \in Sessions, u \in UploadNames \cup {"none"} : ChangeUpload(s, u)
    \/ \E s \in Sessions, ocr_ok, sum_ok, exp_ok, tts_ok \in BOOLEAN :
          ProcessPDF(s, ocr_ok, sum_ok, exp_ok, tts_ok)
    \/ \E s \in Sessions : ReadAudioProcess(s)
    \/ \E s \in Sessions, f \in FeedbackInputs, exp_ok, tts_ok \in BOOLEAN :
          ImproveExplanation(s, f, exp_ok, tts_ok)
    \/ \E s \in Sessions : ReadAudioImprove(s)

SpecApp == InitApp /\ [][NextApp]_vars

-----------------------------------------------------------------------------
(* Claims about extract_text_from_pdf *)

Pages == 1..Len(pdf_pages)

HasEmbeddedText(p) == strip(pdf_pages[p]) # <<>>

\* The run returned normally and no OCR step raised.
FaultFreeRun ==
    /\ ex_pc = "done"
    /\ doc = "closed"
    /\ \A i \in 1..Len(raster_calls) : raster_calls[i].ok
    /\ \A i \in 1..Len(recog_calls) : recog_calls[i].ok

\* The text of page p: its embedded text, or what recognition reads from it.
PageText(p) ==
    IF HasEmbeddedText(p) THEN strip(pdf_pages[p]) \o <<"\n">>
    ELSE Recognized(p) \o <<"\n">>

RECURSIVE ConcatPages(_)
ConcatPages(n) == IF n = 0 THEN <<>> ELSE ConcatPages(n - 1) \o PageText(n)

(* C1: the returned text is the normalized concatenation of the per-page texts
   in page order; a recognized page stands at its own position. Stated for the
   runs in which nothing raised. *)
C1_PageOrder ==
    FaultFreeRun => ex_result = clean_text(ConcatPages(Len(pdf_pages)))

RecognitionFailedFor(p) ==
    \E i \in 1..Len(recog_calls) : recog_calls[i].page = p /\ ~recog_calls[i].ok

RasterizationFailed ==
    \E i \in 1..Len(raster_calls) : ~raster_calls[i].ok

(* C5: an OCR failure is recovered per page: every page with embedded text and
   every queued page whose own recognition did not fail, the ones after a
   failing page included, contributes its text to the result. *)
C5_PerPageRecovery ==
    (ex_pc = "done" /\ doc = "closed" /\ ~RasterizationFailed) =>
        \A p \in Pages :
            /\ HasEmbeddedText(p) => TextLetters[p] \in CharsOf(ex_result)
            /\ (~HasEmbeddedText(p) /\ ~RecognitionFailedFor(p)) =>
                   OcrLetters[p] \in CharsOf(ex_result)

RecognitionsOf(p) == Cardinality({i \in 1..Len(recog_calls) : recog_calls[i].page = p})

(* C6: rasterization is called exactly once, for min..max of the queued pages,
   when a page is queued, and never otherwise; once it has delivered the images,
   recognition runs exactly once for each queued page and never for a page
   that had embedded text. *)
C6_OneRasterCallOneRecognitionPerQueuedPage ==
    (ex_pc = "done" /\ doc = "closed") =>
        /\ (\E p \in Pages : ~HasEmbeddedText(p)) =>
              /\ Len(raster_calls) = 1
              /\ raster_calls[1].first = SeqMin(image_pages)
              /\ raster_calls[1].last = SeqMax(image_pages)
              /\ \A p \in Pages : ~HasEmbeddedText(p) =>
                     (raster_calls[1].first <= p /\ p <= raster_calls[1].last)
        /\ (\A p \in Pages : HasEmbeddedText(p)) => raster_calls = <<>>
        /\ \A p \in Pages : HasEmbeddedText(p) => RecognitionsOf(p) = 0
        /\ ~RasterizationFailed =>
              \A p \in Pages : ~HasEmbeddedText(p) => RecognitionsOf(p) = 1

\* The part of C6 about rasterization and about pages with embedded text.
RasterOnceForQueuedRange ==
    (ex_pc = "done" /\ doc = "closed") =>
        /\ (\E p \in Pages : ~HasEmbeddedText(p)) =>
              /\ Len(raster_calls) = 1
              /\ raster_calls[1].first = SeqMin(image_pages)
              /\ raster_calls[1].last = SeqMax(image_pages)
        /\ (\A p \in Pages : HasEmbeddedText(p)) => raster_calls = <<>>
        /\ \A p \in Pages : HasEmbeddedText(p) => RecognitionsOf(p) = 0
        /\ \A p \in Pages : RecognitionsOf(p) <= 1

-----------------------------------------------------------------------------
(* Claims about generate_summary and generate_explanation *)

Called == gen_last.fn # "none"

(* C4: neither function raises to the caller. With the service unconfigured
   each returns a text that begins with "Error:" and sends nothing to the
   service; when the service call throws each returns a text that begins with
   "Error:" and carries the service's message; otherwise each returns the
   generated text unchanged. *)
C4_GenerationNeverRaises ==
    Called =>
        /\ ~gen_last.raised
        /\ ~model_configured =>
              /\ gen_last.ret # <<>>
              /\ Head(gen_last.ret) = "Error:"
              /\ gen_last.sent = <<>>
        /\ (model_configured /\ ~gen_last.outcome.ok) =>
              /\ gen_last.ret # <<>>
              /\ Head(gen_last.ret) = "Error:"
              /\ gen_last.outcome.msg \in CharsOf(gen_last.ret)
        /\ (model_configured /\ gen_last.outcome.ok) =>
              gen_last.ret = gen_last.outcome.text

\* generate_explanation was called with a feedback history and the service threw.
C4_Witness ==
    /\ gen_last.fn = "generate_explanation"
    /\ model_configured
    /\ ~gen_last.outcome.ok
    /\ Len(gen_last.feedback_history) = 2
    /\ Len(gen_last.sent) = 1
    /\ gen_last.ret # <<>>
    /\ Head(gen_last.ret) = "Error:"

-----------------------------------------------------------------------------
(* Claims about the app.py sessions *)

\* The first place of fragment f in a prompt, 0 when it is not there.
PlaceOf(f, prompt) ==
    IF f \in CharsOf(prompt)
    THEN CHOOSE i \in 1..Len(prompt) : prompt[i] = f /\ \A j \in 1..(i - 1) : prompt[j] # f
    ELSE 0

(* C2: after a document was processed, the directive sent for the k-th
   regeneration of a session contains every feedback f1..fk submitted since,
   in submission order, not only the latest one. *)
C2_FullHistoryInDirective ==
    \A s \in DOMAIN directives :
        last_process[s].outcome = "generated" =>
            \A k \in 1..Len(directives[s]) :
                /\ \A j \in 1..k : feedback_log[s][j] \in CharsOf(directives[s][k])
                /\ \A i, j \in 1..k :
                      (i < j /\ feedback_log[s][i] # feedback_log[s][j]) =>
                          PlaceOf(feedback_log[s][i], directives[s][k])
                              < PlaceOf(feedback_log[s][j], directives[s][k])

(* C3: once ingestion has produced text, a "Process PDF" request ends with the
   summary and the explanation stored and shown and with no blocking error;
   synthesis is invoked exactly when the explanation is not error-marked, and
   audio is attached exactly when synthesis was invoked and succeeded. *)
C3_ProcessEndsReady ==
    \A s \in DOMAIN pc :
        (last_action[s] = "process" /\ pc[s] = "idle" /\ last_process[s].outcome # "no text") =>
            /\ {"summary", "explanation"} \subseteq DOMAIN session_state[s]
            /\ {"summary", "explanation"} \subseteq screen[s]
            /\ "error: something went wrong" \notin screen[s]
            /\ last_process[s].tts_called <=> ~ErrorMarked(session_state[s]["explanation"])
            /\ "audio" \in screen[s] <=> (last_process[s].tts_called /\ last_process[s].tts_ok)

(* C8: a feedback regeneration starts only from Ready: only when the session's
   most recent "Process PDF" run completed the generation of a summary and an
   explanation; never after a run that extracted no text or that aborted
   during generation. *)
C8_RevisingOnlyFromReady ==
    [][\A s \in DOMAIN directives :
           Len(directives'[s]) > Len(directives[s]) =>
               last_process[s].outcome = "generated"]_vars

(* C9: no temporary copy of an upload whose ingestion has finished still
   exists. *)
C9_IngestedUploadCopyDeleted ==
    \A f \in tmp_pdfs : ~f.ingested

(* C10: the audio a session reads back and plays is the synthesis of that
   session's own latest explanation, however the runs of two sessions
   interleave. *)
C10_SessionPlaysOwnAudio ==
    \A s \in DOMAIN pc :
        (pc[s] = "idle" /\ "audio" \in screen[s]) =>
            played[s] = Synthesized(remove_markdown_formatting(session_state[s]["explanation"]))

-----------------------------------------------------------------------------
(* C7: clean_text is idempotent: cleaning a cleaned text changes nothing. *)
C7_CleanTextIdempotent ==
    clean_pc = "twice" => clean_out2 = clean_out1

\* A text whose cleaning exercised all three steps, cleaned twice.
C7_Witness ==
    /\ clean_pc = "twice"
    /\ \E i \in 1..(Len(clean_in) - 1) :
          /\ clean_in[i] = "\n"
          /\ \E j \in (i + 1)..Len(clean_in) :
                /\ clean_in[j] = "\n"
                /\ \A m \in i..j : IsSpace(clean_in[m])
    /\ \E i \in 1..Len(clean_in) : clean_in[i] = "\t"
    /\ IsSpace(clean_in[1])
    /\ clean_out1 # <<>>
    /\ clean_out1 # clean_in

=============================================================================
